---- MODULE Spec2Model ----
(***************************************************************************)
(* break-tracker (src/tracker.py): the polling loop that watches one MyQ   *)
(* garage door, detects open/closed transitions and appends one row per    *)
(* transition to a Google Sheets worksheet (or prints it in dry-run mode). *)
(*                                                                         *)
(* Time is counted in microseconds (the resolution of datetime.now()).     *)
(* A Python Optional[datetime] / Optional[float] is the empty tuple for    *)
(* None and a 1-tuple <<v>> for a value; an Optional[str] uses the string  *)
(* "None" for None.  duration_min is kept as the exact number of           *)
(* microseconds d of the timedelta; it stands for the float (d/10^6)/60.0. *)
(***************************************************************************)
EXTENDS Integers, Sequences, FiniteSets, TLC

\* ---------------------------------------------------------------- bounds
\* number of loop iterations explored
MaxPolls == 4
\* number of loop iterations explored after a startup with arbitrary inputs
MaxStartPolls == 1
\* size of the device collection of the MyQ account
MaxDevices == 2

\* ------------------------------------------------------------- constants
UsPerSec == 1000000
SecPerMin == 60
\* line 74: cfg.get("polling_interval_seconds", 30)
DefaultInterval == 30
\* microseconds in one tenth of a minute (one unit of the ".1f" format)
UsPerTenth == (UsPerSec * SecPerMin) \div 10

\* instants datetime.now() may return (the wall clock is not monotonic)
Times == {0, 30 * UsPerSec, 60 * UsPerSec, 64 * UsPerSec + 500000, 600 * UsPerSec}
\* values door.state may hold after a successful update
DeviceStates == {"open", "closed", "opening"}

None == "None"
Unset == << >>
NoCall == [event |-> "none"]
EmptyStr == << >>

\* values of polling_interval_seconds in config.yaml
Intervals == {-1, 0, 30}

\* device_type strings, as sequences of characters
TypeHub == <<"h", "u", "b">>
TypeGarageDoor == <<"G", "a", "r", "a", "g", "e", "D", "o", "o", "r">>
\* device_type of a device: None (Unset) or <<the string>>
DeviceTypes == {Unset, <<TypeHub>>, <<TypeGarageDoor>>}
\* myq.devices in iteration order, each device given by its device_type
DeviceLists == UNION {[1..n -> DeviceTypes] : n \in 0..MaxDevices}

VARIABLES
    pc,              \* position of the program: "main", "get_sheet", "poll_loop", "login",
                     \* "devices", then in the loop "update", "append", "sleep"; "stopped"
    config_exists,   \* environment: config.yaml is there
    cfg_interval,    \* environment: polling_interval_seconds of config.yaml, Unset when absent
    myq_devices,     \* environment: the devices of the MyQ account
    cap,             \* iterations this exploration follows
    interval,        \* poll_loop local
    devices,         \* poll_loop local: Unset, then <<myq.devices>>
    door,            \* poll_loop local: Unset, then <<position of the monitored device>>
    get_sheet_called, \* get_sheet was called
    fatal,           \* observer: the startup failure that ended the process
    dry_run,         \* args.dry_run
    prev_state,      \* poll_loop local
    last_open_time,  \* poll_loop local
    current_state,   \* poll_loop local
    now,             \* poll_loop local
    call,            \* arguments of the append_row call in progress
    sheet,           \* rows of the worksheet, in order
    stdout,          \* rows printed by the dry-run path, in order
    exit_status,     \* Unset while the process runs, then <<its exit status>>
    \* ---- observers (history of the run, never read by the program)
    nPolls,          \* iterations started
    nOk,             \* polls whose door.update() returned
    obsPrev,         \* state returned by the successful poll before the latest
    obsLast,         \* state returned by the latest successful poll
    nChanges,        \* state changes between consecutive successful polls
    seenOther,       \* some successful poll returned neither open nor closed
    outcome,         \* how the latest iteration ended
    calls,           \* every append_row call made, in order
    dropped,         \* state of a transition whose sink write raised and that the device is still in
    scen             \* progress of the polled sequence along Scenario

start == <<config_exists, cfg_interval, myq_devices, cap, interval, devices, door,
           get_sheet_called, fatal>>

vars == <<pc, start, dry_run, prev_state, last_open_time, current_state, now, call, sheet, stdout, exit_status,
          nPolls, nOk, obsPrev, obsLast, nChanges, seenOther, outcome, calls, dropped, scen>>

prog == <<dry_run, prev_state, last_open_time, current_state, now, call, sheet, stdout>>
loop == <<dry_run, prev_state, last_open_time, current_state, now, call, sheet, stdout, exit_status>>
obs == <<nPolls, nOk, obsPrev, obsLast, nChanges, seenOther, outcome, calls, dropped, scen>>

\* polled sequence CLOSED, CLOSED, OPEN, CLOSED at t = 0, 30, 60, 600 s
Scenario ==
    << [state |-> "closed", t |-> 0],
       [state |-> "closed", t |-> 30 * UsPerSec],
       [state |-> "open",   t |-> 60 * UsPerSec],
       [state |-> "closed", t |-> 600 * UsPerSec] >>

\* --------------------------------------------------------- pure functions

\* now.strftime("%Y-%m-%d %H:%M:%S UTC"): the instant cut to whole seconds
Strftime(t) == t \div UsPerSec

\* 2^k mod 5
Pow2Mod5(k) == <<1, 2, 4, 3>>[(k % 4) + 1]

\* e with 2^e <= n/20 < 2^(e+1): the binary exponent of the float n/20
RECURSIVE ExpUp(_, _)
ExpUp(n, e) == IF 20 * (2 ^ (e + 1)) <= n THEN ExpUp(n, e + 1) ELSE e
RECURSIVE ExpDown(_, _)
ExpDown(m, e) == IF m < 20 THEN ExpDown(2 * m, e - 1) ELSE e
FloatExp(n) == IF n >= 20 THEN ExpUp(n, 0) ELSE ExpDown(n, 0)

\* n odd: does the double nearest to n/20 format upwards under ".1f"?
\* r is the remainder that decides on which side of n/20 the double lies;
\* r = 0 means n/20 is exact and the tie goes to the even tenth.
TieUp(n) ==
    LET r == ((n % 5) * Pow2Mod5(50 - FloatExp(n))) % 5
    IN  IF r = 0 THEN ((n \div 2) % 2 = 1) ELSE r \in {3, 4}

\* |d| microseconds as tenths of a minute, rounded as f"{x:.1f}" rounds
RoundTenths(a) ==
    LET q == a \div UsPerTenth
        r == a % UsPerTenth
    IN  IF 2 * r < UsPerTenth THEN q
        ELSE IF 2 * r > UsPerTenth THEN q + 1
        ELSE IF TieUp(2 * q + 1) THEN q + 1 ELSE q

Abs(d) == IF d < 0 THEN 0 - d ELSE d

\* line 63: dur_str
DurStr(duration_min) ==
    IF duration_min # Unset
    THEN <<duration_min[1] < 0, RoundTenths(Abs(duration_min[1]))>>
    ELSE EmptyStr

\* line 64: row
Row(c) == <<c.timestamp, c.event, DurStr(c.duration_min), c.notes>>

\* line 114
IsTransition_NoBaseline(cur, prev) == cur # prev

\* a test that only compares two door positions
IsTransition_KnownStatesOnly(cur, prev) == cur # prev /\ prev \in {"open", "closed"}

IsTransition(cur, prev) == cur # prev /\ prev # None

\* lines 119-121
DurationMin_FromEpoch(t, open_time) ==
    IF open_time # Unset THEN <<t - open_time[1]>> ELSE <<t>>

DurationMin(t, open_time) ==
    IF open_time # Unset THEN <<t - open_time[1]>> ELSE Unset

\* the arguments of the append_row calls of lines 117 and 122
OpenCall(t) ==
    [timestamp |-> Strftime(t), event |-> "OPEN", duration_min |-> Unset, notes |-> ""]
CloseCall(t, open_time) ==
    [timestamp |-> Strftime(t), event |-> "CLOSE",
     duration_min |-> DurationMin(t, open_time), notes |-> ""]

\* one entry of the observer `calls`
CallEntry(raised) ==
    [at |-> now, event |-> call.event, duration_min |-> call.duration_min,
     row |-> Row(call), open_time |-> last_open_time, raised |-> raised]

\* --------------------------------------------------------- initial state

\* the environment followed for MaxPolls iterations: config.yaml without
\* polling_interval_seconds, one garage door in the account
ReferenceEnv ==
    /\ config_exists = TRUE
    /\ cfg_interval = Unset
    /\ myq_devices = <<(<<TypeGarageDoor>>)>>

AnyEnv ==
    /\ config_exists \in BOOLEAN
    /\ cfg_interval \in {Unset} \cup {<<i>> : i \in Intervals}
    /\ myq_devices \in DeviceLists

Init ==
    /\ pc = "main"
    /\ \/ cap = MaxPolls /\ ReferenceEnv
       \/ cap = MaxStartPolls /\ AnyEnv
    /\ interval = Unset
    /\ devices = Unset
    /\ door = Unset
    /\ get_sheet_called = FALSE
    /\ fatal = "none"
    /\ dry_run \in BOOLEAN
    /\ prev_state = None
    /\ last_open_time = Unset
    /\ current_state = None
    /\ now = Unset
    /\ call = NoCall
    /\ sheet = << >>
    /\ stdout = << >>
    /\ exit_status = Unset
    /\ nPolls = 0
    /\ nOk = 0
    /\ obsPrev = None
    /\ obsLast = None
    /\ nChanges = 0
    /\ seenOther = FALSE
    /\ outcome = "none"
    /\ calls = << >>
    /\ dropped = None
    /\ scen = 0

\* ------------------------------------------------------------ startup

\* what every startup step leaves alone
StartFrame ==
    /\ UNCHANGED <<config_exists, cfg_interval, myq_devices, cap, dry_run>>
    /\ UNCHANGED <<prev_state, last_open_time, current_state, now, call, sheet, stdout>>
    /\ UNCHANGED obs

\* a load_config that falls back to an empty configuration
LoadConfig_DefaultsWhenMissing ==
    /\ pc = "main"
    /\ pc' = IF dry_run THEN "poll_loop" ELSE "get_sheet"
    /\ UNCHANGED <<exit_status, fatal>>
    /\ UNCHANGED <<interval, devices, door, get_sheet_called>>
    /\ StartFrame

\* lines 37-44 and 139-142: load_config; a missing file is sys.exit(1)
LoadConfig ==
    /\ pc = "main"
    /\ IF config_exists
       THEN /\ pc' = IF dry_run THEN "poll_loop" ELSE "get_sheet"
            /\ UNCHANGED <<exit_status, fatal>>
       ELSE /\ pc' = "stopped"
            /\ exit_status' = <<1>>
            /\ fatal' = "config"
    /\ UNCHANGED <<interval, devices, door, get_sheet_called>>
    /\ StartFrame

\* lines 47-51 and 143-145: get_sheet returns the worksheet
GetSheetOk ==
    /\ pc = "get_sheet"
    /\ get_sheet_called' = TRUE
    /\ pc' = "poll_loop"
    /\ UNCHANGED <<exit_status, fatal, interval, devices, door>>
    /\ StartFrame

\* lines 47-51 and 144: get_sheet raises (credentials, network, unknown
\* spreadsheet); nothing catches it and the interpreter exits with status 1
GetSheetRaises ==
    /\ pc = "get_sheet"
    /\ get_sheet_called' = TRUE
    /\ pc' = "stopped"
    /\ exit_status' = <<1>>
    /\ fatal' = "sink"
    /\ UNCHANGED <<interval, devices, door>>
    /\ StartFrame

\* lines 148 and 72-80: asyncio.run enters poll_loop, which reads the interval
EnterPollLoop ==
    /\ pc = "poll_loop"
    /\ interval' = IF cfg_interval = Unset THEN <<DefaultInterval>> ELSE cfg_interval
    /\ pc' = "login"
    /\ UNCHANGED <<exit_status, fatal, devices, door, get_sheet_called>>
    /\ StartFrame

\* lines 81-88: pymyq.login returns the account
LoginOk ==
    /\ pc = "login"
    /\ devices' = <<myq_devices>>
    /\ pc' = "devices"
    /\ UNCHANGED <<exit_status, fatal, interval, door, get_sheet_called>>
    /\ StartFrame

\* lines 81-85: pymyq.login raises; the exception leaves asyncio.run and main
LoginRaises ==
    /\ pc = "login"
    /\ pc' = "stopped"
    /\ exit_status' = <<1>>
    /\ fatal' = "login"
    /\ UNCHANGED <<interval, devices, door, get_sheet_called>>
    /\ StartFrame

\* str.lower() on the letters A-Z
UpperCase == <<"A", "B", "C", "D", "E", "F", "G", "H", "I", "J", "K", "L", "M",
               "N", "O", "P", "Q", "R", "S", "T", "U", "V", "W", "X", "Y", "Z">>
LowerCase == <<"a", "b", "c", "d", "e", "f", "g", "h", "i", "j", "k", "l", "m",
               "n", "o", "p", "q", "r", "s", "t", "u", "v", "w", "x", "y", "z">>
LowerChar(c) ==
    IF \E i \in 1..Len(UpperCase) : UpperCase[i] = c
    THEN LowerCase[CHOOSE i \in 1..Len(UpperCase) : UpperCase[i] = c]
    ELSE c
Lower(str) == [i \in 1..Len(str) |-> LowerChar(str[i])]

\* needle in hay
Contains(needle, hay) ==
    \E i \in 1..(Len(hay) - Len(needle) + 1) :
        SubSeq(hay, i, i + Len(needle) - 1) = needle

\* line 97: "door" in (dev.device_type or "").lower()
IsDoorType(device_type) ==
    Contains(<<"d", "o", "o", "r">>,
             Lower(IF device_type = Unset THEN << >> ELSE device_type[1]))

\* a scan that lacks the `door is None` test and keeps the last match
RECURSIVE ScanDoor_KeepsLast(_, _, _)
ScanDoor_KeepsLast(devs, i, d) ==
    IF i > Len(devs) THEN d
    ELSE ScanDoor_KeepsLast(devs, i + 1, IF IsDoorType(devs[i]) THEN <<i>> ELSE d)

\* lines 94-98: the scan of devices.items(), d being the local `door`
RECURSIVE ScanDoor(_, _, _)
ScanDoor(devs, i, d) ==
    IF i > Len(devs) THEN d
    ELSE ScanDoor(devs, i + 1, IF d = Unset /\ IsDoorType(devs[i]) THEN <<i>> ELSE d)

\* lines 94-102: the scan, then the fallback to the first device
SelectDoor(devs) ==
    LET d == ScanDoor(devs, 1, Unset)
    IN  IF d = Unset THEN <<1>> ELSE d

\* lines 88-105: no device is sys.exit(1); otherwise the door is chosen and the loop begins
ChooseDoor ==
    /\ pc = "devices"
    /\ IF devices[1] = << >>
       THEN /\ pc' = "stopped"
            /\ exit_status' = <<1>>
            /\ fatal' = "devices"
            /\ UNCHANGED door
       ELSE /\ door' = SelectDoor(devices[1])
            /\ pc' = "update"
            /\ UNCHANGED <<exit_status, fatal>>
    /\ UNCHANGED <<interval, devices, get_sheet_called>>
    /\ StartFrame

\* -------------------------------------------------------------- polling

\* a handler that forgets the baseline when the query fails
PollRaises_ResetsBaseline ==
    /\ pc = "update"
    /\ nPolls < cap
    /\ pc' = "sleep"
    /\ nPolls' = nPolls + 1
    /\ outcome' = "poll_error"
    /\ prev_state' = None
    /\ UNCHANGED <<dry_run, last_open_time, current_state, now, call, sheet, stdout, exit_status>>
    /\ UNCHANGED <<nOk, obsPrev, obsLast, nChanges, seenOther, calls, dropped, scen>>
    /\ UNCHANGED start

\* lines 109, 127-128: door.update() raises; the handler logs and falls to the sleep
PollRaises ==
    /\ pc = "update"
    /\ nPolls < cap
    /\ pc' = "sleep"
    /\ nPolls' = nPolls + 1
    /\ outcome' = "poll_error"
    /\ UNCHANGED loop
    /\ UNCHANGED <<nOk, obsPrev, obsLast, nChanges, seenOther, calls, dropped, scen>>
    /\ UNCHANGED start

\* what the observers record of a successful poll returning s at instant t
Observe(s, t) ==
    /\ nPolls' = nPolls + 1
    /\ nOk' = nOk + 1
    /\ obsPrev' = obsLast
    /\ obsLast' = s
    /\ nChanges' = IF obsLast # None /\ obsLast # s THEN nChanges + 1 ELSE nChanges
    /\ seenOther' = (seenOther \/ s \notin {"open", "closed"})
    /\ dropped' = IF s = dropped THEN dropped ELSE None
    /\ scen' = IF scen >= 0 /\ scen < Len(Scenario) /\ Scenario[scen + 1] = [state |-> s, t |-> t]
               THEN scen + 1 ELSE -1
    /\ UNCHANGED calls

\* lines 109-116, 118-121, 125: door.update() returns; the transition test and
\* everything up to the append_row call, or up to line 125 when there is none
PollOk(s, t) ==
    /\ pc = "update"
    /\ nPolls < cap
    /\ current_state' = s
    /\ now' = <<t>>
    /\ Observe(s, t)
    /\ IF IsTransition(s, prev_state) /\ s = "open"
       THEN /\ last_open_time' = <<t>>
            /\ call' = OpenCall(t)
            /\ pc' = "append"
            /\ outcome' = "running"
            /\ UNCHANGED prev_state
       ELSE IF IsTransition(s, prev_state) /\ s = "closed"
       THEN /\ call' = CloseCall(t, last_open_time)
            /\ pc' = "append"
            /\ outcome' = "running"
            /\ UNCHANGED <<prev_state, last_open_time>>
       ELSE /\ prev_state' = s
            /\ pc' = "sleep"
            /\ outcome' = "ok"
            /\ call' = NoCall
            /\ UNCHANGED last_open_time
    /\ UNCHANGED <<dry_run, sheet, stdout, exit_status>>
    /\ UNCHANGED start

\* an append_row without the dry_run test: it always writes to the sheet
AppendRowOk_IgnoresDryRun ==
    /\ pc = "append"
    /\ sheet' = Append(sheet, Row(call)) /\ UNCHANGED stdout
    /\ last_open_time' = IF call.event = "CLOSE" THEN Unset ELSE last_open_time
    /\ prev_state' = current_state
    /\ pc' = "sleep"
    /\ outcome' = "ok"
    /\ calls' = Append(calls, CallEntry(FALSE))
    /\ call' = NoCall
    /\ UNCHANGED <<dry_run, current_state, now, exit_status>>
    /\ UNCHANGED <<nPolls, nOk, obsPrev, obsLast, nChanges, seenOther, dropped, scen>>
    /\ UNCHANGED start

\* a sink that inserts the new row at the top
AppendRowOk_Prepends ==
    /\ pc = "append"
    /\ IF dry_run
       THEN stdout' = <<Row(call)>> \o stdout /\ UNCHANGED sheet
       ELSE sheet' = <<Row(call)>> \o sheet /\ UNCHANGED stdout
    /\ last_open_time' = IF call.event = "CLOSE" THEN Unset ELSE last_open_time
    /\ prev_state' = current_state
    /\ pc' = "sleep"
    /\ outcome' = "ok"
    /\ calls' = Append(calls, CallEntry(FALSE))
    /\ call' = NoCall
    /\ UNCHANGED <<dry_run, current_state, now, exit_status>>
    /\ UNCHANGED <<nPolls, nOk, obsPrev, obsLast, nChanges, seenOther, dropped, scen>>
    /\ UNCHANGED start

\* a loop that does not reach line 125 after a write
AppendRowOk_KeepsPrev ==
    /\ pc = "append"
    /\ IF dry_run
       THEN stdout' = Append(stdout, Row(call)) /\ UNCHANGED sheet
       ELSE sheet' = Append(sheet, Row(call)) /\ UNCHANGED stdout
    /\ last_open_time' = IF call.event = "CLOSE" THEN Unset ELSE last_open_time
    /\ UNCHANGED prev_state
    /\ pc' = "sleep"
    /\ outcome' = "ok"
    /\ calls' = Append(calls, CallEntry(FALSE))
    /\ call' = NoCall
    /\ UNCHANGED <<dry_run, current_state, now, exit_status>>
    /\ UNCHANGED <<nPolls, nOk, obsPrev, obsLast, nChanges, seenOther, dropped, scen>>
    /\ UNCHANGED start

\* lines 63-69, then 123 and 125: append_row returns
AppendRowOk ==
    /\ pc = "append"
    /\ IF dry_run
       THEN stdout' = Append(stdout, Row(call)) /\ UNCHANGED sheet
       ELSE sheet' = Append(sheet, Row(call)) /\ UNCHANGED stdout
    /\ last_open_time' = IF call.event = "CLOSE" THEN Unset ELSE last_open_time
    /\ prev_state' = current_state
    /\ pc' = "sleep"
    /\ outcome' = "ok"
    /\ calls' = Append(calls, CallEntry(FALSE))
    /\ call' = NoCall
    /\ UNCHANGED <<dry_run, current_state, now, exit_status>>
    /\ UNCHANGED <<nPolls, nOk, obsPrev, obsLast, nChanges, seenOther, dropped, scen>>
    /\ UNCHANGED start

\* a handler that catches only the query's errors: the sink's error leaves the loop
AppendRowRaises_Propagates ==
    /\ pc = "append"
    /\ ~dry_run
    /\ pc' = "stopped"
    /\ exit_status' = <<1>>
    /\ outcome' = "sink_error"
    /\ calls' = Append(calls, CallEntry(TRUE))
    /\ dropped' = current_state
    /\ call' = NoCall
    /\ UNCHANGED <<dry_run, prev_state, last_open_time, current_state, now, sheet, stdout>>
    /\ UNCHANGED <<nPolls, nOk, obsPrev, obsLast, nChanges, seenOther, scen>>
    /\ UNCHANGED start

\* lines 68, 127-128: sheet.append_row raises inside the try; the same handler
\* logs and falls to the sleep, skipping lines 123 and 125
AppendRowRaises ==
    /\ pc = "append"
    /\ ~dry_run
    /\ pc' = "sleep"
    /\ outcome' = "sink_error"
    /\ calls' = Append(calls, CallEntry(TRUE))
    /\ dropped' = current_state
    /\ call' = NoCall
    /\ UNCHANGED <<dry_run, prev_state, last_open_time, current_state, now, sheet, stdout, exit_status>>
    /\ UNCHANGED <<nPolls, nOk, obsPrev, obsLast, nChanges, seenOther, scen>>
    /\ UNCHANGED start

\* line 130: asyncio.sleep(interval) returns and the while loop starts over
Sleep ==
    /\ pc = "sleep"
    /\ pc' = "update"
    /\ UNCHANGED loop
    /\ UNCHANGED obs
    /\ UNCHANGED start

\* lines 147-150: KeyboardInterrupt ends asyncio.run; main logs "Stopped." and
\* returns.  The interrupt arrives while the loop awaits (lines 109, 130) or
\* while it runs the blocking sheet.append_row (line 68).
Interrupt ==
    /\ pc \in {"update", "append", "sleep"}
    /\ pc' = "stopped"
    /\ exit_status' = <<0>>
    /\ UNCHANGED prog
    /\ UNCHANGED obs
    /\ UNCHANGED start

Next ==
    \/ LoadConfig
    \/ GetSheetOk
    \/ GetSheetRaises
    \/ EnterPollLoop
    \/ LoginOk
    \/ LoginRaises
    \/ ChooseDoor
    \/ PollRaises
    \/ \E s \in DeviceStates, t \in Times : PollOk(s, t)
    \/ AppendRowOk
    \/ AppendRowRaises
    \/ Sleep
    \/ Interrupt

Spec == Init /\ [][Next]_vars

\* asyncio.sleep returns after the interval and the awaited calls return or raise
FairSpec == Spec /\ WF_vars(Sleep) /\ WF_vars(AppendRowOk \/ AppendRowRaises)

TypeOK ==
    /\ pc \in {"main", "get_sheet", "poll_loop", "login", "devices",
              "update", "append", "sleep", "stopped"}
    /\ dry_run \in BOOLEAN
    /\ exit_status \in {Unset, <<0>>, <<1>>}
    /\ cap \in {MaxPolls, MaxStartPolls}
    /\ interval \in {Unset, <<DefaultInterval>>} \cup {<<i>> : i \in Intervals}
    /\ devices \in {Unset, <<myq_devices>>}
    /\ door \in {Unset} \cup {<<i>> : i \in 1..Len(myq_devices)}
    /\ fatal \in {"none", "config", "sink", "login", "devices"}
    /\ get_sheet_called => ~dry_run
    /\ (pc = "stopped") = (exit_status # Unset)
    /\ prev_state \in DeviceStates \cup {None}
    /\ current_state \in DeviceStates \cup {None}
    /\ last_open_time \in {Unset} \cup {<<t>> : t \in Times}
    /\ nPolls \in 0..cap
    /\ nOk \in 0..nPolls
    /\ Len(calls) <= nOk
    /\ Len(sheet) + Len(stdout) <= Len(calls)

\* ------------------------------------------------------------ properties

Last(q) == q[Len(q)]
NoSinkFailure == \A j \in 1..Len(calls) : ~calls[j].raised
ErrorOutcomes == {"poll_error", "sink_error"}

\* C1: the first successful poll of a run never causes a call to append_row,
\* whatever state it returns and however many failed polls precede it; it
\* only sets prev_state to the state it observed.
C1_FirstPollNoEvent ==
    nOk <= 1 =>
        /\ Len(calls) = 0
        /\ call = NoCall
        /\ pc # "append"
        /\ nOk = 1 => (prev_state = obsLast /\ last_open_time = Unset)

\* the first successful poll came after a failed one and returned "open"
C1_Witness ==
    /\ nOk = 1
    /\ nPolls >= 2
    /\ outcome = "ok"
    /\ pc = "sleep"
    /\ prev_state = "open"

\* C2: when two consecutive successful polls return the same state, the
\* second one makes no call to append_row, whatever happened at the first.
C2_SameStateNoEvent ==
    pc = "append" => obsPrev # obsLast

\* C3: an event whose sink write raised is dropped: while the device stays in
\* the state of that transition no later iteration calls append_row for it
\* again, and the loop is at its sleep after the failed write.
C3_DroppedNotRetried ==
    /\ pc = "append" => dropped = None
    /\ (outcome = "sink_error" /\ exit_status = Unset) => pc \in {"sleep", "update"}

\* C4: a poll whose device query raises leaves prev_state and last_open_time
\* as they were and emits no event, and a successful poll that follows a
\* failed one and returns the state of the last successful poll emits no event.
C4_PollErrorFrame ==
    [][ /\ (nPolls' = nPolls + 1 /\ outcome' = "poll_error") =>
              /\ prev_state' = prev_state
              /\ last_open_time' = last_open_time
              /\ calls' = calls
              /\ pc' # "append"
        /\ (outcome = "poll_error" /\ nOk' = nOk + 1 /\ obsLast' = obsLast) =>
              pc' # "append" ]_vars

\* C5: after every iteration last_open_time is set if and only if the most
\* recently emitted event was an OPEN (no CLOSE emitted since).
C5_OpenTimeIffLastOpen ==
    pc = "sleep" =>
        ((last_open_time # Unset) <=> (Len(calls) > 0 /\ Last(calls).event = "OPEN"))

\* C6: for every OPEN event emitted at t_open and the next CLOSE event, emitted
\* at t_close > t_open, the CLOSE carries a duration, it is >= 0 and it equals
\* t_close - t_open, whatever polls happened in between (device states open
\* and closed only).
C6_DurationPairsOpenClose ==
    ~seenOther =>
        \A j \in 1..Len(calls) : \A i \in 1..(j - 1) :
            ( /\ calls[j].event = "CLOSE"
              /\ calls[i].event = "OPEN"
              /\ \A k \in (i + 1)..(j - 1) : calls[k].event # "CLOSE"
              /\ calls[i].at[1] < calls[j].at[1] )
            => /\ calls[j].duration_min # Unset
               /\ calls[j].duration_min[1] >= 0
               /\ calls[j].duration_min[1] = calls[j].at[1] - calls[i].at[1]

C8_ExactlyOnce ==
    (~seenOther /\ NoSinkFailure) =>
        /\ call = NoCall => Len(calls) = nChanges
        /\ call # NoCall => (Len(calls) + 1 = nChanges /\ obsPrev # obsLast)
        /\ Len(sheet) + Len(stdout) = Len(calls)

\* two changes, a failed poll among the four, two events handed off
C8_Witness ==
    /\ ~seenOther
    /\ NoSinkFailure
    /\ nPolls > nOk
    /\ nChanges = 2
    /\ Len(calls) = 2
    /\ pc = "sleep"

\* C9: an iteration emits at most one event; a successful poll with previous
\* state p (not the sentinel) and current state c # p emits an OPEN when c is
\* open and a CLOSE when c is closed; so the polled sequence CLOSED, CLOSED,
\* OPEN, CLOSED at 0, 30, 60, 600 s yields exactly OPEN@60 without duration and
\* CLOSE@600 with duration 540 s (9.0 minutes).
C9_ScenarioEvents ==
    /\ Len(calls) <= nOk
    /\ pc = "append" =>
          /\ obsPrev # None /\ obsPrev # obsLast
          /\ call.event = (IF obsLast = "open" THEN "OPEN" ELSE "CLOSE")
    /\ (pc = "sleep" /\ obsPrev # None /\ obsPrev # obsLast /\ outcome = "ok"
            /\ obsLast \in {"open", "closed"}) =>
          /\ Len(calls) > 0
          /\ Last(calls).at = now
          /\ Last(calls).event = (IF obsLast = "open" THEN "OPEN" ELSE "CLOSE")
    /\ (scen = Len(Scenario) /\ pc = "sleep") =>
          /\ Len(calls) = 2
          /\ calls[1].event = "OPEN"
          /\ calls[1].at = <<60 * UsPerSec>>
          /\ calls[1].duration_min = Unset
          /\ calls[2].event = "CLOSE"
          /\ calls[2].at = <<600 * UsPerSec>>
          /\ calls[2].duration_min = <<540 * UsPerSec>>
          /\ calls[2].row = <<600, "CLOSE", <<FALSE, 90>>, "">>

\* C10: no recoverable error ends the loop: once it runs (the door is chosen)
\* only an external interrupt stops it, and after an iteration in which the query or the sink write raised the
\* loop is at its sleep and then starts another poll (or is interrupted).
C10_LoopSurvivesErrors ==
    /\ []((pc = "stopped" /\ door # Unset) => exit_status = <<0>>)
    /\ [](outcome \in ErrorOutcomes => pc \in {"sleep", "update", "stopped"})
    /\ ((outcome \in ErrorOutcomes /\ pc = "sleep") ~> (pc = "update" \/ pc = "stopped"))

\* the sink write raised, the loop slept and is about to poll again
C10_Witness ==
    /\ outcome = "sink_error"
    /\ pc = "update"
    /\ exit_status = Unset
    /\ nPolls < cap

InLoop == pc \in {"update", "append", "sleep"}
IsRecorded(c) == ~c.raised
\* the append_row calls that returned, in order
Recorded == SelectSeq(calls, IsRecorded)
\* the rows of the sink in use
SinkRows == IF dry_run THEN stdout ELSE sheet

\* C11: in dry-run mode the durable write path is never used: get_sheet is
\* not called, no row reaches the worksheet, and every event is printed.
C11_DryRunNeverWrites ==
    dry_run =>
        /\ ~get_sheet_called
        /\ pc # "get_sheet"
        /\ sheet = << >>
        /\ Len(stdout) = Len(calls)
        /\ \A j \in 1..Len(calls) : ~calls[j].raised /\ stdout[j] = calls[j].row

\* a dry run that printed two events
C11_Witness ==
    /\ dry_run
    /\ Len(stdout) = 2
    /\ Len(calls) = 2
    /\ pc = "sleep"

\* C12: a configured polling_interval_seconds <= 0 is a configuration error
\* at startup: the program never polls the device nor enters the loop with it.
C12_BadIntervalRejected ==
    (config_exists /\ cfg_interval # Unset /\ cfg_interval[1] <= 0) =>
        /\ ~InLoop
        /\ nPolls = 0

\* C13: the sink is append-only and keeps the order of production: its rows
\* are the rows of the append_row calls that returned, in call order, a step
\* only adds a row at the end, and row timestamps follow the poll instants.
C13_AppendOnlyInOrder ==
    /\ [](/\ Len(sheet) + Len(stdout) = Len(Recorded)
          /\ Len(SinkRows) = Len(Recorded)
          /\ \A i \in 1..Len(SinkRows) : SinkRows[i] = Recorded[i].row
          /\ \A i \in 1..Len(SinkRows) : \A j \in (i + 1)..Len(SinkRows) :
                Recorded[i].at[1] <= Recorded[j].at[1] => SinkRows[i][1] <= SinkRows[j][1])
    /\ [][ /\ sheet' # sheet =>
                (Len(sheet') = Len(sheet) + 1 /\ SubSeq(sheet', 1, Len(sheet)) = sheet)
           /\ stdout' # stdout =>
                (Len(stdout') = Len(stdout) + 1 /\ SubSeq(stdout', 1, Len(stdout)) = stdout) ]_vars

\* two rows in the worksheet, the first with the earlier timestamp, after a failed write
C13_Witness ==
    /\ Len(sheet) = 2
    /\ sheet[1][1] < sheet[2][1]
    /\ Len(calls) = 3

\* C14: startup failures are fatal before any poll or sink write: a missing
\* config file, an empty device list or an unreachable sink end the process
\* with status 1 and no event; an interrupt during the loop ends it with 0.
C14_StartupFailuresFatal ==
    /\ exit_status = <<1>> =>
          (nPolls = 0 /\ calls = << >> /\ call = NoCall /\ sheet = << >> /\ stdout = << >>)
    /\ (~config_exists /\ pc # "main") => (pc = "stopped" /\ exit_status = <<1>>)
    /\ myq_devices = << >> => (~InLoop /\ nPolls = 0)
    /\ (devices = <<(<< >>)>> /\ pc # "devices") => (pc = "stopped" /\ exit_status = <<1>>)
    /\ fatal \in {"config", "sink", "devices"} => (pc = "stopped" /\ exit_status = <<1>>)
    /\ (pc = "stopped" /\ door # Unset) => exit_status = <<0>>

\* live mode, the sheet was opened, the account has no device: exit status 1
C14_Witness ==
    /\ fatal = "devices"
    /\ get_sheet_called
    /\ exit_status = <<1>>

\* C15: shutdown never cuts the steps of an iteration that set
\* last_open_time, write the event and set prev_state: an interrupt takes
\* effect only at the sleep or at the device query.
C15_NoInterruptMidUpdate ==
    (pc = "stopped" /\ exit_status = <<0>>) => call = NoCall

\* the duration field of a row in whole seconds (a tenth of a minute is 6 s)
DurSeconds(dur_str) == (IF dur_str[1] THEN -1 ELSE 1) * dur_str[2] * (SecPerMin \div 10)

Alternates ==
    \A j \in 2..Len(SinkRows) : SinkRows[j][2] # SinkRows[j - 1][2]

\* C16 as stated: with states open/closed the rows of the sink alternate
\* between OPEN and CLOSE, and every CLOSE row with a duration follows an OPEN
\* row whose timestamp equals the CLOSE timestamp minus that duration.
C16_RowsPairExactly ==
    ~seenOther =>
        /\ Alternates
        /\ \A j \in 1..Len(SinkRows) :
              (SinkRows[j][2] = "CLOSE" /\ SinkRows[j][3] # EmptyStr) =>
                  /\ j > 1
                  /\ SinkRows[j - 1][2] = "OPEN"
                  /\ SinkRows[j - 1][1] = SinkRows[j][1] - DurSeconds(SinkRows[j][3])

\* C16 amended: the rows alternate; every CLOSE row with a duration follows
\* an OPEN row, its unrounded duration is the time between the two polls, and
\* the two timestamps differ by the row's duration to within 3 seconds.
C16_RowsPairWithinRounding ==
    ~seenOther =>
        /\ Alternates
        /\ Len(SinkRows) = Len(Recorded)
        /\ \A j \in 1..Len(SinkRows) :
              (SinkRows[j][2] = "CLOSE" /\ SinkRows[j][3] # EmptyStr) =>
                  /\ j > 1
                  /\ SinkRows[j - 1][2] = "OPEN"
                  /\ Recorded[j].duration_min = <<Recorded[j].at[1] - Recorded[j - 1].at[1]>>
                  /\ Abs(SinkRows[j][1] - DurSeconds(SinkRows[j][3]) - SinkRows[j - 1][1]) <= 3

\* an OPEN row and a CLOSE row with a duration, recorded after a failed write
C16_Witness ==
    /\ ~seenOther
    /\ Len(sheet) = 2
    /\ sheet[2][2] = "CLOSE"
    /\ sheet[2][3] # EmptyStr
    /\ sheet[2][1] - DurSeconds(sheet[2][3]) # sheet[1][1]
    /\ Len(calls) = 3

\* C17: a successful poll returning neither open nor closed emits no event
\* and leaves last_open_time alone but replaces prev_state; so open,
\* closing, open emits a second OPEN with no CLOSE in between and sets
\* last_open_time to the later poll time.
C17_IntermediateState ==
    /\ [][ /\ (nOk' = nOk + 1 /\ current_state' \notin {"open", "closed"}) =>
                /\ pc' = "sleep"
                /\ call' = NoCall
                /\ calls' = calls
                /\ last_open_time' = last_open_time
                /\ prev_state' = current_state'
           /\ (nOk' = nOk + 1 /\ obsLast \notin {"open", "closed", None}
                    /\ obsPrev = "open" /\ current_state' = "open") =>
                /\ pc' = "append"
                /\ call'.event = "OPEN"
                /\ calls' = calls
                /\ last_open_time' = now' ]_vars
    /\ [](obsLast \notin {"open", "closed", None} => prev_state = obsLast)

\* closed, open, opening, open: two OPEN events in a row, the open time is the later poll's
C17_Witness ==
    /\ Len(calls) = 2
    /\ calls[1].event = "OPEN"
    /\ calls[2].event = "OPEN"
    /\ obsPrev = "opening"
    /\ last_open_time = calls[2].at
    /\ calls[1].at # calls[2].at
    /\ pc = "sleep"

\* device_type contains "door" in any letter case (None counting as empty)
HasDoorLetters(device_type) ==
    /\ device_type # Unset
    /\ \E i \in 1..(Len(device_type[1]) - 3) :
          /\ device_type[1][i] \in {"d", "D"}
          /\ device_type[1][i + 1] \in {"o", "O"}
          /\ device_type[1][i + 2] \in {"o", "O"}
          /\ device_type[1][i + 3] \in {"r", "R"}

\* the first door-type device of the collection, the first device when there is none
FirstDoor(devs) ==
    IF \E i \in 1..Len(devs) : HasDoorLetters(devs[i])
    THEN CHOOSE i \in 1..Len(devs) :
            HasDoorLetters(devs[i]) /\ \A k \in 1..(i - 1) : ~HasDoorLetters(devs[k])
    ELSE 1

\* C18: the monitored device is the first device whose device_type contains
\* "door" (case-insensitive, a missing type counting as empty), the first
\* device when none matches; it is chosen once and never changes.
C18_DoorChoice ==
    /\ [](door # Unset => door = <<FirstDoor(myq_devices)>>)
    /\ [](InLoop => door # Unset)
    /\ [][door # Unset => door' = door]_vars

\* a hub comes first, the garage door second is monitored and polled
C18_Witness ==
    /\ Len(myq_devices) = 2
    /\ myq_devices[1] = <<TypeHub>>
    /\ door = <<2>>
    /\ nPolls >= 1
====
